---- MODULE Spec2Model ----
(***************************************************************************)
(* Offline license issuance and activation: the LicenseGenerator class     *)
(* (server/license-generator.ts), the licensing router procedures          *)
(* (server/routers.ts) and the license store helpers (license-db).         *)
(*                                                                         *)
(* Strings and buffers are sequences of character codes / bytes, so that   *)
(* base64, JSON text and the dash formatting are computed, not assumed.    *)
(***************************************************************************)
EXTENDS Integers, Sequences, FiniteSets, TLC

\* ------------------------------------------------------------------------
\* Bounds of the model
\* ------------------------------------------------------------------------
MaxTicks == 2          \* how many times the clock advances
MaxIssued == 2         \* generateLicenseKey calls recorded in a behaviour
NonceLen == 1          \* bytes of nonce drawn (the code draws 16)
MaxDays == 1           \* largest expiresInDays input
MaxActInput == 2       \* largest maxActivations input

\* ------------------------------------------------------------------------
\* Program constants
\* ------------------------------------------------------------------------
MsPerDay == 24 * 60 * 60 * 1000
KeyChars == 20
GroupLen == 5
Epoch == 1000          \* Date.now() at process start (any positive instant)

Absent == -1           \* expiresInDays not passed (undefined)
Null == -1             \* JSON null in payload.expiresAt

ErrFormat == "Invalid license key format"
ErrSignature == "Invalid signature"
ErrExpired == "License expired"
NoError == "none"

\* ------------------------------------------------------------------------
\* Text literals (character codes)
\* ------------------------------------------------------------------------
L_email == <<123, 34, 101, 109, 97, 105, 108, 34, 58>>   \* {"email":
L_maxActivations == <<44, 34, 109, 97, 120, 65, 99, 116, 105, 118, 97, 116, 105, 111, 110, 115, 34, 58>>   \* ,"maxActivations":
L_expiresAt == <<44, 34, 101, 120, 112, 105, 114, 101, 115, 65, 116, 34, 58>>   \* ,"expiresAt":
L_issuedAt == <<44, 34, 105, 115, 115, 117, 101, 100, 65, 116, 34, 58>>   \* ,"issuedAt":
L_nonce == <<44, 34, 110, 111, 110, 99, 101, 34, 58>>   \* ,"nonce":
L_null == <<110, 117, 108, 108>>   \* null
L_payload == <<123, 34, 112, 97, 121, 108, 111, 97, 100, 34, 58>>   \* {"payload":
L_signature == <<44, 34, 115, 105, 103, 110, 97, 116, 117, 114, 101, 34, 58>>   \* ,"signature":
L_close == <<125>>   \* }
L_licenseKey == <<123, 34, 108, 105, 99, 101, 110, 115, 101, 75, 101, 121, 34, 58>>   \* {"licenseKey":
L_hardwareId == <<44, 34, 104, 97, 114, 100, 119, 97, 114, 101, 73, 100, 34, 58>>   \* ,"hardwareId":
L_activatedAt == <<44, 34, 97, 99, 116, 105, 118, 97, 116, 101, 100, 65, 116, 34, 58>>   \* ,"activatedAt":
L_data == <<123, 34, 100, 97, 116, 97, 34, 58>>   \* {"data":
EmailA == <<97, 64, 98, 46, 99>>   \* a@b.c
EmailB == <<122, 64, 121, 46, 120>>   \* z@y.x

QUOTE == 34
BACKSLASH == 92
DASH == 45
PAD == 61
REPLACEMENT == 65533   \* U+FFFD

Emails == {EmailA, EmailB}
PurchaserEmails == {EmailA}   \* emails given to licensing.generate
DaysInputs == {Absent} \cup (0..MaxDays)
MaxActInputs == 1..MaxActInput
\* z.number().default(1): the input schema of licensing.generate has no minimum
SchemaMaxActInputs == 0..MaxActInput
NonceBytes == {10, 171}
Nonces == [1..NonceLen -> NonceBytes]

Min(a, b) == IF a < b THEN a ELSE b

\* a function over 1..n as an explicit sequence
AsSeq(f) == f \o <<>>

\* ------------------------------------------------------------------------
\* Character classes and conversions
\* ------------------------------------------------------------------------
IsUpper(c) == c >= 65 /\ c <= 90
IsLower(c) == c >= 97 /\ c <= 122
IsDigit(c) == c >= 48 /\ c <= 57
IsAlnum(c) == IsUpper(c) \/ IsLower(c) \/ IsDigit(c)
ToUpper(c) == IF IsLower(c) THEN c - 32 ELSE c
NotDash(c) == c # DASH

\* Number.prototype.toString as JSON.stringify writes a non-negative integer
Dec(n) ==
    LET digits[k \in Nat] ==
            IF k < 10 THEN <<48 + k>>
            ELSE digits[k \div 10] \o <<48 + (k % 10)>>
    IN  digits[n]

HexDigit(d) == IF d < 10 THEN 48 + d ELSE 87 + d
\* Buffer.toString('hex')
Hex(bytes) ==
    AsSeq([j \in 1..(2 * Len(bytes)) |->
        LET b == bytes[(j + 1) \div 2]
        IN  IF j % 2 = 1 THEN HexDigit(b \div 16) ELSE HexDigit(b % 16)])

\* JSON.stringify of a string without characters that need escaping
Quoted(s) == <<QUOTE>> \o s \o <<QUOTE>>

\* ------------------------------------------------------------------------
\* base64 (Buffer.toString('base64') / Buffer.from(s, 'base64'))
\* ------------------------------------------------------------------------
B64Char(i) ==
    IF i < 26 THEN 65 + i
    ELSE IF i < 52 THEN 97 + (i - 26)
    ELSE IF i < 62 THEN 48 + (i - 52)
    ELSE IF i = 62 THEN 43 ELSE 47

\* index of a character in the alphabet, -1 when it is not a base64 character;
\* '-' and '_' (the URL-safe alphabet) are accepted by the decoder
B64Index(c) ==
    IF IsUpper(c) THEN c - 65
    ELSE IF IsLower(c) THEN c - 97 + 26
    ELSE IF IsDigit(c) THEN c - 48 + 52
    ELSE IF c = 43 \/ c = 45 THEN 62
    ELSE IF c = 47 \/ c = 95 THEN 63
    ELSE -1

IsB64(c) == B64Index(c) >= 0

Base64Encode(bytes) ==
    LET n == Len(bytes)
        At(k) == IF k <= n THEN bytes[k] ELSE 0
    IN  AsSeq([j \in 1..(4 * ((n + 2) \div 3)) |->
            LET g == (j - 1) \div 4
                k == (j - 1) % 4
                b0 == At(3 * g + 1)
                b1 == At(3 * g + 2)
                b2 == At(3 * g + 3)
            IN  IF k = 0 THEN B64Char(b0 \div 4)
                ELSE IF k = 1 THEN B64Char((b0 % 4) * 16 + (b1 \div 16))
                ELSE IF k = 2 THEN
                    IF 3 * g + 2 > n THEN PAD
                    ELSE B64Char((b1 % 16) * 4 + (b2 \div 64))
                ELSE IF 3 * g + 3 > n THEN PAD ELSE B64Char(b2 % 64)])

\* least index j >= i with s[j] = c, Len(s) + 1 when there is none
IndexFrom(s, i, c) ==
    LET hits == {j \in i..Len(s) : s[j] = c}
    IN  IF hits = {} THEN (IF i > Len(s) THEN i ELSE Len(s) + 1)
        ELSE CHOOSE j \in hits : \A k \in hits : j <= k

\* position of the first '=' (decoding stops there), Len + 1 when none
FirstPad(s) == IndexFrom(s, 1, PAD)

Base64Decode(s) ==
    LET body == SelectSeq(SubSeq(s, 1, FirstPad(s) - 1), IsB64)
        m == Len(body)
        n == 3 * (m \div 4) +
             (IF m % 4 = 2 THEN 1 ELSE IF m % 4 = 3 THEN 2 ELSE 0)
        Ix(k) == IF k <= m THEN B64Index(body[k]) ELSE 0
    IN  AsSeq([j \in 1..n |->
            LET g == (j - 1) \div 3
                k == (j - 1) % 3
                c0 == Ix(4 * g + 1)
                c1 == Ix(4 * g + 2)
                c2 == Ix(4 * g + 3)
                c3 == Ix(4 * g + 4)
            IN  IF k = 0 THEN c0 * 4 + (c1 \div 16)
                ELSE IF k = 1 THEN (c1 % 16) * 16 + (c2 \div 4)
                ELSE (c2 % 4) * 64 + c3])

\* Buffer.toString('utf-8'): ASCII bytes are themselves, a byte that is not
\* part of a well-formed sequence decodes to U+FFFD
Utf8ToString(bytes) ==
    AsSeq([j \in 1..Len(bytes) |->
              IF bytes[j] < 128 THEN bytes[j] ELSE REPLACEMENT])

\* Buffer.from(string): the UTF-8 bytes of a string
StringToUtf8(s) ==
    LET n == Len(s)
        bytes[lo \in 1..(n + 1), hi \in 0..n] ==
            IF lo > hi THEN <<>>
            ELSE IF lo = hi
            THEN (IF s[lo] < 128 THEN <<s[lo]>> ELSE <<239, 191, 189>>)
            ELSE LET mid == (lo + hi) \div 2
                 IN  bytes[lo, mid] \o bytes[mid + 1, hi]
    IN  bytes[1, n]

\* ------------------------------------------------------------------------
\* Signing (crypto.sign / crypto.verify, sha256 with RSA-PSS), kept abstract:
\* a signature binds the key pair, a digest of the message and the random
\* PSS salt; any change of message, key pair or signature byte is rejected.
\* ------------------------------------------------------------------------
NumSalts == 1          \* PSS salts drawn (a bound of the model)
Salts == 1..NumSalts

SumRange(bytes, weighted, from, to) ==
    LET n == Len(bytes)
        sum[lo \in 1..(n + 1), hi \in 0..n] ==
            IF lo > hi THEN 0
            ELSE IF lo = hi
            THEN (IF weighted THEN lo * bytes[lo] ELSE bytes[lo])
            ELSE LET mid == (lo + hi) \div 2
                 IN  sum[lo, mid] + sum[mid + 1, hi]
    IN  sum[from, to]

WeightedSum(bytes) == SumRange(bytes, TRUE, 1, Len(bytes)) % 241
PlainSum(bytes) == SumRange(bytes, FALSE, 1, Len(bytes)) % 251

SigCheck(kp, d1, d2, salt) == (kp + d1 + 3 * d2 + 5 * salt) % 256

Sign(kp, message, salt) ==
    LET d1 == PlainSum(message)
        d2 == WeightedSum(message)
    IN  <<kp, d1, d2, salt, SigCheck(kp, d1, d2, salt)>>

\* variant: the digests of the signed message are not compared
VerifyKeyOnly(kp, message, signature) ==
    /\ Len(signature) = 5
    /\ signature[1] = kp
    /\ signature[5] = SigCheck(kp, signature[2], signature[3], signature[4])

Verify(kp, message, signature) ==
    /\ Len(signature) = 5
    /\ signature[1] = kp
    /\ signature[2] = PlainSum(message)
    /\ signature[3] = WeightedSum(message)
    /\ signature[5] = SigCheck(kp, signature[2], signature[3], signature[4])

\* ------------------------------------------------------------------------
\* LicenseGenerator.generateLicenseKey and formatLicenseKey
\* ------------------------------------------------------------------------
Truthy(n) == n # Null /\ n # 0

\* variant: a missing expiresInDays taken as 0 days instead of no expiry
PayloadZeroDays(email, maxActivations, expiresInDays, dateNow, nonce) ==
    [email |-> email,
     maxActivations |-> maxActivations,
     expiresAt |-> dateNow + (IF expiresInDays = Absent THEN 0
                              ELSE expiresInDays) * MsPerDay,
     issuedAt |-> dateNow,
     nonce |-> Hex(nonce)]

\* the payload object of generateLicenseKey; both Date.now() reads fall in
\* the same millisecond
Payload(email, maxActivations, expiresInDays, dateNow, nonce) ==
    [email |-> email,
     maxActivations |-> maxActivations,
     expiresAt |-> IF expiresInDays # Absent /\ expiresInDays # 0
                   THEN dateNow + expiresInDays * MsPerDay
                   ELSE Null,
     issuedAt |-> dateNow,
     nonce |-> Hex(nonce)]

\* JSON.stringify(payload)
StringifyPayload(p) ==
    L_email \o Quoted(p.email)
    \o L_maxActivations \o Dec(p.maxActivations)
    \o L_expiresAt \o (IF p.expiresAt = Null THEN L_null ELSE Dec(p.expiresAt))
    \o L_issuedAt \o Dec(p.issuedAt)
    \o L_nonce \o Quoted(p.nonce)
    \o L_close

\* JSON.stringify(licenseData)
StringifyLicenseData(d) ==
    L_payload \o Quoted(d.payload) \o L_signature \o Quoted(d.signature)
    \o L_close

\* the local licenseKey of generateLicenseKey before it is formatted
EncodeLicense(kp, p, salt) ==
    LET payloadString == StringifyPayload(p)
        signature == Sign(kp, StringToUtf8(payloadString), salt)
        licenseData == [payload |-> Base64Encode(StringToUtf8(payloadString)),
                        signature |-> Base64Encode(signature)]
    IN  Base64Encode(StringToUtf8(StringifyLicenseData(licenseData)))

Upper(s) == AsSeq([j \in 1..Len(s) |-> ToUpper(s[j])])

formatLicenseKey(key) ==
    LET alnum == Upper(SelectSeq(key, IsAlnum))
        cleaned == SubSeq(alnum, 1, Min(KeyChars, Len(alnum)))
        n == Len(cleaned)
        parts == (n + GroupLen - 1) \div GroupLen
    IN  AsSeq([j \in 1..(IF n = 0 THEN 0 ELSE n + parts - 1) |->
            IF j % (GroupLen + 1) = 0 THEN DASH
            ELSE cleaned[j - (j \div (GroupLen + 1))]])

generateLicenseKey(kp, email, maxActivations, expiresInDays, dateNow, nonce, salt) ==
    formatLicenseKey(
        EncodeLicense(kp,
                      Payload(email, maxActivations, expiresInDays, dateNow,
                              nonce),
                      salt))

\* ------------------------------------------------------------------------
\* JSON.parse of the two texts validateLicenseKey reads
\* ------------------------------------------------------------------------
HasAt(s, i, lit) ==
    /\ i + Len(lit) - 1 <= Len(s)
    /\ SubSeq(s, i, i + Len(lit) - 1) = lit

\* least index j >= i where s[j] is not a digit, Len(s) + 1 when none
DigitsEnd(s, i) ==
    LET stops == {j \in i..Len(s) : ~IsDigit(s[j])}
    IN  IF stops = {} THEN (IF i > Len(s) THEN i ELSE Len(s) + 1)
        ELSE CHOOSE j \in stops : \A k \in stops : j <= k

ParseDec(digits) ==
    LET value[k \in 0..Len(digits)] ==
            IF k = 0 THEN 0 ELSE 10 * value[k - 1] + (digits[k] - 48)
    IN  value[Len(digits)]

\* characters a JSON string may hold unescaped
PlainText(s) ==
    \A j \in 1..Len(s) : s[j] >= 32 /\ s[j] # QUOTE /\ s[j] # BACKSLASH

ParseFailed == [ok |-> FALSE]

\* JSON.parse(text) followed by the reads of .payload and .signature: any
\* text that is not an object with these two string members makes
\* validateLicenseKey throw
ParseLicenseData(text) ==
    LET a == Len(L_payload) + 1
        q1 == IndexFrom(text, a + 1, QUOTE)
        b == q1 + 1 + Len(L_signature)
        q2 == IndexFrom(text, b + 1, QUOTE)
    IN  IF /\ HasAt(text, 1, L_payload)
           /\ HasAt(text, a, <<QUOTE>>)
           /\ q1 <= Len(text)
           /\ HasAt(text, q1 + 1, L_signature)
           /\ HasAt(text, b, <<QUOTE>>)
           /\ q2 <= Len(text)
           /\ HasAt(text, q2 + 1, L_close)
           /\ q2 + Len(L_close) = Len(text)
           /\ PlainText(SubSeq(text, a + 1, q1 - 1))
           /\ PlainText(SubSeq(text, b + 1, q2 - 1))
        THEN [ok |-> TRUE,
              payload |-> SubSeq(text, a + 1, q1 - 1),
              signature |-> SubSeq(text, b + 1, q2 - 1)]
        ELSE ParseFailed

\* JSON.parse(payloadString)
ParsePayload(text) ==
    LET a == Len(L_email) + 1
        q1 == IndexFrom(text, a + 1, QUOTE)
        m1 == q1 + 1 + Len(L_maxActivations)
        m2 == DigitsEnd(text, m1)
        e1 == m2 + Len(L_expiresAt)
        isNull == HasAt(text, e1, L_null)
        e2 == IF isNull THEN e1 + Len(L_null) ELSE DigitsEnd(text, e1)
        i1 == e2 + Len(L_issuedAt)
        i2 == DigitsEnd(text, i1)
        n1 == i2 + Len(L_nonce)
        q2 == IndexFrom(text, n1 + 1, QUOTE)
    IN  IF /\ HasAt(text, 1, L_email)
           /\ HasAt(text, a, <<QUOTE>>)
           /\ q1 <= Len(text)
           /\ PlainText(SubSeq(text, a + 1, q1 - 1))
           /\ HasAt(text, q1 + 1, L_maxActivations)
           /\ m2 > m1
           /\ HasAt(text, m2, L_expiresAt)
           /\ (isNull \/ e2 > e1)
           /\ HasAt(text, e2, L_issuedAt)
           /\ i2 > i1
           /\ HasAt(text, i2, L_nonce)
           /\ HasAt(text, n1, <<QUOTE>>)
           /\ q2 <= Len(text)
           /\ PlainText(SubSeq(text, n1 + 1, q2 - 1))
           /\ HasAt(text, q2 + 1, L_close)
           /\ q2 + Len(L_close) = Len(text)
        THEN [ok |-> TRUE,
              email |-> SubSeq(text, a + 1, q1 - 1),
              maxActivations |-> ParseDec(SubSeq(text, m1, m2 - 1)),
              expiresAt |-> IF isNull THEN Null
                            ELSE ParseDec(SubSeq(text, e1, e2 - 1)),
              issuedAt |-> ParseDec(SubSeq(text, i1, i2 - 1)),
              nonce |-> SubSeq(text, n1 + 1, q2 - 1)]
        ELSE ParseFailed

\* ------------------------------------------------------------------------
\* LicenseGenerator.validateLicenseKey
\* ------------------------------------------------------------------------
Invalid(err) == [valid |-> FALSE, error |-> err, payload |-> ParseFailed]

\* variant: the expiry of the payload is looked at before the signature
validateLicenseKeyExpiryFirst(kp, licenseKey, dateNow) ==
    LET cleanKey == SelectSeq(licenseKey, NotDash)
        licenseData == ParseLicenseData(Utf8ToString(Base64Decode(cleanKey)))
    IN  IF ~licenseData.ok THEN Invalid(ErrFormat)
        ELSE
        LET payloadString == Utf8ToString(Base64Decode(licenseData.payload))
            signature == Base64Decode(licenseData.signature)
            isValid == Verify(kp, StringToUtf8(payloadString), signature)
            payload == ParsePayload(payloadString)
        IN  IF ~payload.ok THEN Invalid(ErrFormat)
            ELSE IF Truthy(payload.expiresAt) /\ dateNow > payload.expiresAt
            THEN Invalid(ErrExpired)
            ELSE IF ~isValid THEN Invalid(ErrSignature)
            ELSE [valid |-> TRUE, error |-> NoError, payload |-> payload]

validateLicenseKey(kp, licenseKey, dateNow) ==
    LET cleanKey == SelectSeq(licenseKey, NotDash)
        licenseData == ParseLicenseData(Utf8ToString(Base64Decode(cleanKey)))
    IN  IF ~licenseData.ok THEN Invalid(ErrFormat)
        ELSE
        LET payloadString == Utf8ToString(Base64Decode(licenseData.payload))
            signature == Base64Decode(licenseData.signature)
            isValid == Verify(kp, StringToUtf8(payloadString), signature)
        IN  IF ~isValid THEN Invalid(ErrSignature)
            ELSE
            LET payload == ParsePayload(payloadString)
            IN  IF ~payload.ok THEN Invalid(ErrFormat)
                ELSE IF Truthy(payload.expiresAt) /\ dateNow > payload.expiresAt
                THEN Invalid(ErrExpired)
                ELSE [valid |-> TRUE, error |-> NoError, payload |-> payload]

\* ------------------------------------------------------------------------
\* LicenseGenerator.createActivationToken and verifyActivationToken
\* ------------------------------------------------------------------------
ErrToken == "Invalid activation token"
ErrTokenFormat == "Invalid token format"

\* JSON.stringify(data)
StringifyTokenData(d) ==
    L_licenseKey \o Quoted(d.licenseKey)
    \o L_hardwareId \o Quoted(d.hardwareId)
    \o L_activatedAt \o Dec(d.activatedAt)
    \o L_close

createActivationToken(kp, licenseKey, hardwareId, dateNow, salt) ==
    LET dataString == StringifyTokenData(
            [licenseKey |-> licenseKey, hardwareId |-> hardwareId,
             activatedAt |-> dateNow])
        signature == Sign(kp, StringToUtf8(dataString), salt)
    IN  Base64Encode(StringToUtf8(
            L_data \o Quoted(Base64Encode(StringToUtf8(dataString)))
            \o L_signature \o Quoted(Base64Encode(signature))
            \o L_close))

\* JSON.parse(text) followed by the reads of .data and .signature
ParseTokenData(text) ==
    LET a == Len(L_data) + 1
        q1 == IndexFrom(text, a + 1, QUOTE)
        b == q1 + 1 + Len(L_signature)
        q2 == IndexFrom(text, b + 1, QUOTE)
    IN  IF /\ HasAt(text, 1, L_data)
           /\ HasAt(text, a, <<QUOTE>>)
           /\ q1 <= Len(text)
           /\ HasAt(text, q1 + 1, L_signature)
           /\ HasAt(text, b, <<QUOTE>>)
           /\ q2 <= Len(text)
           /\ HasAt(text, q2 + 1, L_close)
           /\ q2 + Len(L_close) = Len(text)
           /\ PlainText(SubSeq(text, a + 1, q1 - 1))
           /\ PlainText(SubSeq(text, b + 1, q2 - 1))
        THEN [ok |-> TRUE,
              data |-> SubSeq(text, a + 1, q1 - 1),
              signature |-> SubSeq(text, b + 1, q2 - 1)]
        ELSE ParseFailed

\* JSON.parse(dataString)
ParseTokenPayload(text) ==
    LET a == Len(L_licenseKey) + 1
        q1 == IndexFrom(text, a + 1, QUOTE)
        h == q1 + 1 + Len(L_hardwareId)
        q2 == IndexFrom(text, h + 1, QUOTE)
        t1 == q2 + 1 + Len(L_activatedAt)
        t2 == DigitsEnd(text, t1)
    IN  IF /\ HasAt(text, 1, L_licenseKey)
           /\ HasAt(text, a, <<QUOTE>>)
           /\ q1 <= Len(text)
           /\ PlainText(SubSeq(text, a + 1, q1 - 1))
           /\ HasAt(text, q1 + 1, L_hardwareId)
           /\ HasAt(text, h, <<QUOTE>>)
           /\ q2 <= Len(text)
           /\ PlainText(SubSeq(text, h + 1, q2 - 1))
           /\ HasAt(text, q2 + 1, L_activatedAt)
           /\ t2 > t1
           /\ HasAt(text, t2, L_close)
           /\ t2 + Len(L_close) - 1 = Len(text)
        THEN [ok |-> TRUE,
              licenseKey |-> SubSeq(text, a + 1, q1 - 1),
              hardwareId |-> SubSeq(text, h + 1, q2 - 1),
              activatedAt |-> ParseDec(SubSeq(text, t1, t2 - 1))]
        ELSE ParseFailed

\* the data and signature buffers verifyActivationToken reads from a token
TokenParts(token) ==
    LET tokenData == ParseTokenData(Utf8ToString(Base64Decode(token)))
    IN  IF ~tokenData.ok THEN ParseFailed
        ELSE [ok |-> TRUE, data |-> Base64Decode(tokenData.data),
              signature |-> Base64Decode(tokenData.signature)]

\* verifyActivationToken from the buffers on
VerifyParts(kp, parts) ==
    IF ~parts.ok THEN [valid |-> FALSE, error |-> ErrTokenFormat]
        ELSE
        LET dataString == Utf8ToString(parts.data)
            isValid == Verify(kp, StringToUtf8(dataString), parts.signature)
        IN  IF ~isValid THEN [valid |-> FALSE, error |-> ErrToken]
            ELSE
            LET data == ParseTokenPayload(dataString)
            IN  IF ~data.ok THEN [valid |-> FALSE, error |-> ErrTokenFormat]
                ELSE [valid |-> TRUE, error |-> NoError, data |-> data]

verifyActivationToken(kp, token) == VerifyParts(kp, TokenParts(token))

\* ------------------------------------------------------------------------
\* State
\* ------------------------------------------------------------------------
VARIABLES
    now,          \* Date.now()
    keyPair,      \* key pair of the singleton LicenseGenerator
    dbUp,         \* whether getDb() returns a connection in this process
    last,         \* the latest generateLicenseKey call made on the generator
    returned,     \* the key strings generateLicenseKey has returned, in order
    checked,      \* the latest validateLicenseKey call and its result
    licenses,     \* table licenses, row i has id i
    activations,  \* table activations, row i has id i
    calls,        \* the activate / deactivate requests being served
    ncalls,       \* requests accepted so far
    genCalls,     \* licenses stored by licensing.generate so far
    lastDone      \* the request that completed most recently

genVars == <<last, returned, checked>>
storeVars == <<licenses, activations, calls, ncalls, genCalls, lastDone>>
vars == <<now, keyPair, dbUp, last, returned, checked,
          licenses, activations, calls, ncalls, genCalls, lastDone>>

MaxKeyPairs == 2       \* key pairs a behaviour sees: process starts
KeyPairs == 1..MaxKeyPairs

\* the instants the clock can show
Instants ==
    {Epoch + a + b * MsPerDay : a \in 0..MaxTicks, b \in 0..(MaxTicks - 1)}

\* generateLicenseKey tabulated over the inputs of the model (@@ makes the
\* table an explicit function, computed once)
KeyTable ==
    [in \in KeyPairs \X Emails \X SchemaMaxActInputs \X DaysInputs \X Instants
            \X Nonces \X Salts |->
        generateLicenseKey(in[1], in[2], in[3], in[4], in[5], in[6], in[7])]
    @@ <<>>

NoIssue == [issuedAt |-> 0]
NoCheck == [kind |-> "none"]

\* ------------------------------------------------------------------------
\* The generator used directly: issue, validate, validate a modified key
\* ------------------------------------------------------------------------
TamperDeltas == {1}

\* decode the key string, change byte i by delta, encode again
Tamper(licenseKey, i, delta) ==
    LET bytes == Base64Decode(SelectSeq(licenseKey, NotDash))
    IN  Base64Encode([bytes EXCEPT ![i] = (@ + delta) % 256])

\* whether JSON.parse and the member reads of validateLicenseKey succeed
Decodes(licenseKey) ==
    ParseLicenseData(
        Utf8ToString(Base64Decode(SelectSeq(licenseKey, NotDash)))).ok

Issue(email, maxActivations, expiresInDays, nonce, salt) ==
    /\ Len(returned) < MaxIssued
    /\ LET key == KeyTable[<<keyPair, email, maxActivations, expiresInDays,
                             now, nonce, salt>>]
       IN  /\ last' = [email |-> email, maxActivations |-> maxActivations,
                       expiresInDays |-> expiresInDays, issuedAt |-> now,
                       nonce |-> nonce, salt |-> salt, kp |-> keyPair,
                       key |-> key]
           /\ returned' = Append(returned, key)
    /\ checked' = NoCheck
    /\ UNCHANGED <<now, keyPair, dbUp, storeVars>>

\* the value of generateLicenseKey's local licenseKey for the latest call
LastEncoded ==
    EncodeLicense(last.kp,
                  Payload(last.email, last.maxActivations, last.expiresInDays,
                          last.issuedAt, last.nonce),
                  last.salt)

\* decodes: JSON.parse and the member reads succeed on the input; verifies:
\* crypto.verify accepts the signature read from it
Check(kind, input) ==
    /\ \E licenseData \in {ParseLicenseData(
               Utf8ToString(Base64Decode(SelectSeq(input, NotDash))))} :
           checked' =
               [kind |-> kind, at |-> now, decodes |-> licenseData.ok,
                verifies |->
                    /\ licenseData.ok
                    /\ Verify(keyPair,
                              StringToUtf8(Utf8ToString(
                                  Base64Decode(licenseData.payload))),
                              Base64Decode(licenseData.signature)),
                result |-> validateLicenseKey(keyPair, input, now)]
    /\ UNCHANGED <<now, keyPair, dbUp, last, returned, storeVars>>

ValidateKey ==
    /\ last # NoIssue
    /\ Check("key", last.key)

ValidateEncoded ==
    /\ last # NoIssue
    /\ Check("encoded", LastEncoded)

ValidateTampered ==
    /\ last # NoIssue
    /\ LET n == Len(Base64Decode(SelectSeq(last.key, NotDash)))
       IN  \E i \in 1..n, delta \in TamperDeltas :
               Check("tampered", Tamper(last.key, i, delta))

\* a key text that decodes and whose signature is not the generator's over
\* its payload: signed with another key pair, or the payload changed after
\* signing
ValidateForged ==
    /\ last # NoIssue
    /\ LET payload == Payload(last.email, last.maxActivations,
                              last.expiresInDays, last.issuedAt, last.nonce)
           changed == [payload EXCEPT !.maxActivations = @ + 1]
           resigned == EncodeLicense(last.kp + 1, payload, last.salt)
           repacked == Base64Encode(StringToUtf8(StringifyLicenseData(
               [payload |-> Base64Encode(StringToUtf8(
                                StringifyPayload(changed))),
                signature |-> Base64Encode(
                    Sign(last.kp, StringToUtf8(StringifyPayload(payload)),
                         last.salt))])))
       IN  \E input \in {resigned, repacked} : Check("forged", input)

Advance(step) ==
    /\ now + step \in Instants
    /\ now' = now + step
    /\ UNCHANGED <<keyPair, dbUp, genVars, storeVars>>

\* a millisecond or a day passes
Tick == \E step \in {1, MsPerDay} : Advance(step)

\* more than a day passes
TickDay == Advance(MsPerDay + 1)

\* ------------------------------------------------------------------------
\* License store (license-db helpers over the tables of drizzle/schema.ts)
\* ------------------------------------------------------------------------
NumProcs == 2          \* requests served at the same time
NumHardware == 2       \* distinct hardware ids
MaxCalls == 3          \* activate / deactivate requests in a behaviour
MaxSeqCalls == 4       \* the same when requests are served one at a time
MaxAdminCalls == 2     \* the same when an administrator acts in between

Procs == 1..NumProcs
HardwareIds == 1..NumHardware
UnknownKey == <<88>>   \* a key string no license was stored under

NoRow == [id |-> 0]
NoCall == [op |-> "none"]
Idle == [op |-> "idle", pc |-> "idle"]

ErrNotFound == "License not found"
ErrCapacity == "Maximum activations reached"
ErrNoActivation == "Activation not found"
ErrStatus(status) == IF status = "expired" THEN "License is expired"
                     ELSE "License is revoked"
ErrNotInDatabase == "License not found in database"
ErrStore == "store error"   \* a rejected query or an aborted request
ErrDatabase == "Database not available"

KeyExists(licenseKey) ==
    \E i \in DOMAIN licenses : licenses[i].licenseKey = licenseKey

\* INSERT INTO licenses; licenseKey carries a UNIQUE constraint
createLicense(row) ==
    Append(licenses, [id |-> Len(licenses) + 1] @@ row)

\* variant: the first stored license is returned whatever the key
getLicenseByKeyAny(licenseKey) ==
    IF licenses # <<>> THEN licenses[1] ELSE NoRow

\* (null when getDb() gives no connection)
getLicenseByKey(licenseKey) ==
    IF dbUp /\ KeyExists(licenseKey)
    THEN licenses[CHOOSE i \in DOMAIN licenses :
                      licenses[i].licenseKey = licenseKey]
    ELSE NoRow

incrementActivationCount(licenseId) ==
    [licenses EXCEPT ![licenseId].currentActivations = @ + 1]

\* variant: the counter is left as it is
decrementActivationCountSkipped(licenseId) == licenses

decrementActivationCount(licenseId) ==
    [licenses EXCEPT ![licenseId].currentActivations = @ - 1]

\* variant: a deactivated row of the pair is made active again
createActivationRevive(licenseId, hardwareId) ==
    LET old == {i \in DOMAIN activations :
                   /\ activations[i].licenseId = licenseId
                   /\ activations[i].hardwareId = hardwareId
                   /\ activations[i].status = "deactivated"}
    IN  IF old # {}
        THEN [activations EXCEPT ![CHOOSE i \in old : TRUE].status = "active"]
        ELSE Append(activations,
                    [id |-> Len(activations) + 1, licenseId |-> licenseId,
                     hardwareId |-> hardwareId, status |-> "active",
                     lastSeenAt |-> now])

createActivation(licenseId, hardwareId) ==
    Append(activations,
           [id |-> Len(activations) + 1, licenseId |-> licenseId,
            hardwareId |-> hardwareId, status |-> "active",
            lastSeenAt |-> now])

\* variant: rows of any status are selected
getActivationByHardwareIdAnyStatus(licenseId, hardwareId) ==
    {i \in DOMAIN activations :
        /\ activations[i].licenseId = licenseId
        /\ activations[i].hardwareId = hardwareId}

\* the rows getActivationByHardwareId selects from; LIMIT 1 returns one of them
getActivationByHardwareId(licenseId, hardwareId) ==
    {i \in DOMAIN activations :
        /\ dbUp
        /\ activations[i].licenseId = licenseId
        /\ activations[i].hardwareId = hardwareId
        /\ activations[i].status = "active"}

Statuses == {"active", "expired", "revoked"}

updateLicenseStatus(licenseId, status) ==
    [licenses EXCEPT ![licenseId].status = status]

deactivateActivation(activationId) ==
    [activations EXCEPT ![activationId].status = "deactivated"]

\* variant: every activation row of the license is touched
updateLastSeenAll(activationId) ==
    [i \in DOMAIN activations |->
        IF activations[i].licenseId = activations[activationId].licenseId
        THEN [activations[i] EXCEPT !.lastSeenAt = now]
        ELSE activations[i]]

updateLastSeen(activationId) ==
    [activations EXCEPT ![activationId].lastSeenAt = now]

\* number of rows of a license whose status is 'active' in an activations table
ActiveCountIn(rows, licenseId) ==
    Cardinality({i \in DOMAIN rows :
                    /\ rows[i].licenseId = licenseId
                    /\ rows[i].status = "active"})

ActiveCount(licenseId) == ActiveCountIn(activations, licenseId)

\* ------------------------------------------------------------------------
\* licensing.generate
\* ------------------------------------------------------------------------
Generate(email, maxActivations, expiresInDays, nonce, salt) ==
    /\ genCalls < MaxIssued
    /\ LET licenseKey == KeyTable[<<keyPair, email, maxActivations,
                                    expiresInDays, now, nonce, salt>>]
       IN  IF ~dbUp \/ KeyExists(licenseKey)
           THEN /\ licenses' = licenses       \* createLicense throws
                /\ genCalls' = genCalls
                /\ lastDone' = [op |-> "generate", success |-> FALSE]
           ELSE /\ genCalls' = genCalls + 1
                /\ lastDone' = [op |-> "generate", success |-> TRUE]
                /\ licenses' = createLicense(
                    [licenseKey |-> licenseKey, email |-> email,
                     maxActivations |-> maxActivations,
                     currentActivations |-> 0,
                     expiresAt |-> IF expiresInDays # Absent /\ expiresInDays # 0
                                   THEN now + expiresInDays * MsPerDay
                                   ELSE Null,
                     status |-> "active"])
    /\ UNCHANGED <<now, keyPair, dbUp, genVars, activations, calls, ncalls>>

\* ------------------------------------------------------------------------
\* licensing.activate and licensing.deactivate, one action per await
\* ------------------------------------------------------------------------
\* the key strings generateLicenseKey hands out
IssuableKeys == {KeyTable[in] : in \in DOMAIN KeyTable}

KeyInputs ==
    {licenses[i].licenseKey : i \in DOMAIN licenses}
        \cup IssuableKeys \cup {UnknownKey}

Free(p) == calls[p].pc \in {"idle", "done"}

\* a request arrives; prev, cur0, active0, licenses0 and activations0
\* remember what it found: the request completed last, the counter and the
\* active rows of its license, and the two tables
Accept(p, op, licenseKey, hardwareId) ==
    /\ Free(p)
    /\ ncalls' = ncalls + 1
    /\ LET license == getLicenseByKey(licenseKey)
       IN  calls' = [calls EXCEPT ![p] =
               [op |-> op, pc |-> "getLicense", licenseKey |-> licenseKey,
                hardwareId |-> hardwareId, license |-> NoRow,
                activation |-> 0,
                prev |-> lastDone,
                cur0 |-> IF license = NoRow THEN 0
                         ELSE license.currentActivations,
                active0 |-> IF license = NoRow THEN 0
                            ELSE ActiveCount(license.id),
                licenses0 |-> licenses,
                activations0 |-> activations]]
    /\ UNCHANGED <<now, keyPair, dbUp, genVars, licenses, activations, genCalls,
                   lastDone>>

StartCall(p, op, licenseKey, hardwareId) ==
    /\ ncalls < MaxCalls
    /\ Accept(p, op, licenseKey, hardwareId)

\* the request follows a successful activate of the same license key and
\* hardware id, with no other request completed in between
Repeats(call) ==
    /\ call.op = "activate"
    /\ call.prev.op = "activate"
    /\ call.prev.success
    /\ call.prev.licenseKey = call.licenseKey
    /\ call.prev.hardwareId = call.hardwareId

\* the request follows a successful deactivate of another hardware id of the
\* same license, which itself followed an activate of this request's hardware
\* id that was turned down for capacity
Reuses(call) ==
    /\ call.op = "activate"
    /\ call.prev.op = "deactivate"
    /\ call.prev.success
    /\ call.prev.licenseKey = call.licenseKey
    /\ call.prev.hardwareId # call.hardwareId
    /\ call.prev.rejected = call.hardwareId

\* the hardware id the request completed before this one was turned down for,
\* when that was an activate of the same license rejected for capacity
RejectedBefore(call) ==
    IF /\ call.prev.op = "activate"
       /\ ~call.prev.success
       /\ call.prev.result = ErrCapacity
       /\ call.prev.licenseKey = call.licenseKey
    THEN call.prev.hardwareId
    ELSE 0

NoToken == [activatedAt |-> 0]

\* the request of p ends: return value or thrown error; token is the
\* activationToken member of the return value, given by the instant and the
\* key pair createActivationToken signed it with
FinishWith(p, success, result, token) ==
    LET done == [op |-> calls[p].op, pc |-> "done",
                 licenseKey |-> calls[p].licenseKey,
                 hardwareId |-> calls[p].hardwareId,
                 success |-> success, result |-> result,
                 token |-> token,
                 repeat |-> Repeats(calls[p]),
                 reuse |-> Reuses(calls[p]),
                 rejected |-> RejectedBefore(calls[p])]
    IN  /\ calls' = [calls EXCEPT ![p] = done]
        /\ lastDone' = done

Finish(p, success, result) == FinishWith(p, success, result, NoToken)

Goto(p, pc) ==
    /\ calls' = [calls EXCEPT ![p].pc = pc]
    /\ UNCHANGED lastDone

\* variant: the stored status is not looked at
ActivateGetLicenseNoStatus(p) ==
    /\ calls[p].op = "activate" /\ calls[p].pc = "getLicense"
    /\ LET license == getLicenseByKey(calls[p].licenseKey)
       IN  IF license = NoRow THEN Finish(p, FALSE, ErrNotFound)
           ELSE /\ calls' = [calls EXCEPT ![p].pc = "getActivation",
                                          ![p].license = license]
                /\ UNCHANGED lastDone
    /\ UNCHANGED <<now, keyPair, dbUp, genVars, licenses, activations, ncalls,
                   genCalls>>

\* const license = await getLicenseByKey(...); the two checks that follow
ActivateGetLicense(p) ==
    /\ calls[p].op = "activate" /\ calls[p].pc = "getLicense"
    /\ LET license == getLicenseByKey(calls[p].licenseKey)
       IN  IF license = NoRow THEN Finish(p, FALSE, ErrNotFound)
           ELSE IF license.status # "active"
           THEN Finish(p, FALSE, ErrStatus(license.status))
           ELSE /\ calls' = [calls EXCEPT ![p].pc = "getActivation",
                                          ![p].license = license]
                /\ UNCHANGED lastDone
    /\ UNCHANGED <<now, keyPair, dbUp, genVars, licenses, activations, ncalls,
                   genCalls>>

\* variant: the capacity check made before the look-up of an existing activation
ActivateGetActivationCapacityFirst(p) ==
    /\ calls[p].op = "activate" /\ calls[p].pc = "getActivation"
    /\ LET license == calls[p].license
           rows == getActivationByHardwareId(license.id, calls[p].hardwareId)
       IN  IF license.currentActivations >= license.maxActivations
           THEN Finish(p, FALSE, ErrCapacity)
           ELSE IF rows # {}
           THEN /\ \E a \in rows :
                      calls' = [calls EXCEPT ![p].pc = "updateLastSeen",
                                             ![p].activation = a]
                /\ UNCHANGED lastDone
           ELSE Goto(p, "createActivation")
    /\ UNCHANGED <<now, keyPair, dbUp, genVars, licenses, activations, ncalls,
                   genCalls>>

\* variant: the activation row is inserted before the capacity check
ActivateGetActivationInsertFirst(p) ==
    /\ calls[p].op = "activate" /\ calls[p].pc = "getActivation"
    /\ LET license == calls[p].license
           rows == getActivationByHardwareId(license.id, calls[p].hardwareId)
       IN  IF rows # {}
           THEN /\ \E a \in rows :
                      calls' = [calls EXCEPT ![p].pc = "updateLastSeen",
                                             ![p].activation = a]
                /\ UNCHANGED <<lastDone, activations>>
           ELSE /\ activations' = createActivation(license.id,
                                                   calls[p].hardwareId)
                /\ IF license.currentActivations >= license.maxActivations
                   THEN Finish(p, FALSE, ErrCapacity)
                   ELSE Goto(p, "incrementCount")
    /\ UNCHANGED <<now, keyPair, dbUp, genVars, licenses, ncalls, genCalls>>

\* const existingActivation = await getActivationByHardwareId(...); the
\* capacity check reads the license object fetched earlier
ActivateGetActivation(p) ==
    /\ calls[p].op = "activate" /\ calls[p].pc = "getActivation"
    /\ LET license == calls[p].license
           rows == getActivationByHardwareId(license.id, calls[p].hardwareId)
       IN  IF rows # {}
           THEN /\ \E a \in rows :
                      calls' = [calls EXCEPT ![p].pc = "updateLastSeen",
                                             ![p].activation = a]
                /\ UNCHANGED lastDone
           ELSE IF license.currentActivations >= license.maxActivations
           THEN Finish(p, FALSE, ErrCapacity)
           ELSE Goto(p, "createActivation")
    /\ UNCHANGED <<now, keyPair, dbUp, genVars, licenses, activations, ncalls,
                   genCalls>>

ActivateUpdateLastSeen(p) ==
    /\ calls[p].op = "activate" /\ calls[p].pc = "updateLastSeen"
    /\ IF dbUp
       THEN /\ activations' = updateLastSeen(calls[p].activation)
            /\ Finish(p, TRUE, "alreadyActivated")
       ELSE /\ UNCHANGED activations
            /\ Finish(p, FALSE, ErrDatabase)
    /\ UNCHANGED <<now, keyPair, dbUp, genVars, licenses, ncalls, genCalls>>

ActivateCreateActivation(p) ==
    /\ calls[p].op = "activate" /\ calls[p].pc = "createActivation"
    /\ IF dbUp
       THEN /\ activations' = createActivation(calls[p].license.id,
                                               calls[p].hardwareId)
            /\ Goto(p, "incrementCount")
       ELSE /\ UNCHANGED activations
            /\ Finish(p, FALSE, ErrDatabase)
    /\ UNCHANGED <<now, keyPair, dbUp, genVars, licenses, ncalls, genCalls>>

ActivateIncrementCount(p) ==
    /\ calls[p].op = "activate" /\ calls[p].pc = "incrementCount"
    /\ IF dbUp
       THEN /\ licenses' = incrementActivationCount(calls[p].license.id)
            /\ FinishWith(p, TRUE, "activated",
                          [activatedAt |-> now, kp |-> keyPair])
       ELSE /\ UNCHANGED licenses
            /\ Finish(p, FALSE, ErrDatabase)
    /\ UNCHANGED <<now, keyPair, dbUp, genVars, activations, ncalls, genCalls>>

\* variant: deactivate turns down a license that is not active
DeactivateGetLicenseStatusChecked(p) ==
    /\ calls[p].op = "deactivate" /\ calls[p].pc = "getLicense"
    /\ LET license == getLicenseByKey(calls[p].licenseKey)
       IN  IF license = NoRow THEN Finish(p, FALSE, ErrNotFound)
           ELSE IF license.status # "active"
           THEN Finish(p, FALSE, ErrStatus(license.status))
           ELSE /\ calls' = [calls EXCEPT ![p].pc = "getActivation",
                                          ![p].license = license]
                /\ UNCHANGED lastDone
    /\ UNCHANGED <<now, keyPair, dbUp, genVars, licenses, activations, ncalls,
                   genCalls>>

DeactivateGetLicense(p) ==
    /\ calls[p].op = "deactivate" /\ calls[p].pc = "getLicense"
    /\ LET license == getLicenseByKey(calls[p].licenseKey)
       IN  IF license = NoRow THEN Finish(p, FALSE, ErrNotFound)
           ELSE /\ calls' = [calls EXCEPT ![p].pc = "getActivation",
                                          ![p].license = license]
                /\ UNCHANGED lastDone
    /\ UNCHANGED <<now, keyPair, dbUp, genVars, licenses, activations, ncalls,
                   genCalls>>

\* variant: the look-up takes activation rows of any status
DeactivateGetActivationAnyStatus(p) ==
    /\ calls[p].op = "deactivate" /\ calls[p].pc = "getActivation"
    /\ LET rows == {i \in DOMAIN activations :
                       /\ activations[i].licenseId = calls[p].license.id
                       /\ activations[i].hardwareId = calls[p].hardwareId}
       IN  IF rows = {} THEN Finish(p, FALSE, ErrNoActivation)
           ELSE /\ \E a \in rows :
                      calls' = [calls EXCEPT ![p].pc = "deactivateActivation",
                                             ![p].activation = a]
                /\ UNCHANGED lastDone
    /\ UNCHANGED <<now, keyPair, dbUp, genVars, licenses, activations, ncalls,
                   genCalls>>

DeactivateGetActivation(p) ==
    /\ calls[p].op = "deactivate" /\ calls[p].pc = "getActivation"
    /\ LET rows == getActivationByHardwareId(calls[p].license.id,
                                             calls[p].hardwareId)
       IN  IF rows = {} THEN Finish(p, FALSE, ErrNoActivation)
           ELSE /\ \E a \in rows :
                      calls' = [calls EXCEPT ![p].pc = "deactivateActivation",
                                             ![p].activation = a]
                /\ UNCHANGED lastDone
    /\ UNCHANGED <<now, keyPair, dbUp, genVars, licenses, activations, ncalls,
                   genCalls>>

DeactivateDeactivateActivation(p) ==
    /\ calls[p].op = "deactivate" /\ calls[p].pc = "deactivateActivation"
    /\ IF dbUp
       THEN /\ activations' = deactivateActivation(calls[p].activation)
            /\ Goto(p, "decrementCount")
       ELSE /\ UNCHANGED activations
            /\ Finish(p, FALSE, ErrDatabase)
    /\ UNCHANGED <<now, keyPair, dbUp, genVars, licenses, ncalls, genCalls>>

DeactivateDecrementCount(p) ==
    /\ calls[p].op = "deactivate" /\ calls[p].pc = "decrementCount"
    /\ IF dbUp
       THEN /\ licenses' = decrementActivationCount(calls[p].license.id)
            /\ Finish(p, TRUE, "deactivated")
       ELSE /\ UNCHANGED licenses
            /\ Finish(p, FALSE, ErrDatabase)
    /\ UNCHANGED <<now, keyPair, dbUp, genVars, activations, ncalls, genCalls>>

\* a query of the request rejects, or the request is aborted, before the
\* store call it is waiting on takes effect: the procedures catch nothing,
\* so the request ends there
StoreFailure(p) ==
    /\ calls[p].pc \in {"getLicense", "getActivation", "updateLastSeen",
                        "createActivation", "incrementCount",
                        "deactivateActivation", "decrementCount"}
    /\ Finish(p, FALSE, ErrStore)
    /\ UNCHANGED <<now, keyPair, dbUp, genVars, licenses, activations, ncalls,
                   genCalls>>

\* ------------------------------------------------------------------------
\* licensing.validate, and a change of the stored status by an administrator
\* ------------------------------------------------------------------------
\* a licenseKey of generateLicenseKey as it is before formatLicenseKey
UnformattedKey ==
    EncodeLicense(1, Payload(EmailA, 1, Absent, Epoch, [j \in 1..NonceLen |-> 10]),
                  1)

\* validateLicenseKey tabulated over the key strings validate is asked about
ValidationTable ==
    [in \in KeyPairs \X (IssuableKeys \cup {UnknownKey, UnformattedKey})
            \X Instants |->
        validateLicenseKey(in[1], in[2], in[3])]
    @@ <<>>

\* variant: the answer of validateLicenseKey alone
validateOffline(licenseKey) ==
    LET validation == ValidationTable[<<keyPair, licenseKey, now>>]
    IN  [valid |-> validation.valid, error |-> validation.error]

validate(licenseKey) ==
    LET validation == ValidationTable[<<keyPair, licenseKey, now>>]
        license == getLicenseByKey(licenseKey)
    IN  IF ~validation.valid
        THEN [valid |-> FALSE, error |-> validation.error]
        ELSE IF license = NoRow
        THEN [valid |-> FALSE, error |-> ErrNotInDatabase]
        ELSE IF license.status # "active"
        THEN [valid |-> FALSE, error |-> ErrStatus(license.status)]
        ELSE [valid |-> TRUE, error |-> NoError]

\* status is the stored status of the license at the time of the request,
\* offline the answer of validateLicenseKey
ValidateRequest(licenseKey) ==
    /\ LET license == getLicenseByKey(licenseKey)
       IN  checked' = [kind |-> "validate",
                       offline |->
                           ValidationTable[<<keyPair, licenseKey, now>>].valid,
                       status |-> IF license = NoRow THEN "none"
                                  ELSE license.status,
                       result |-> validate(licenseKey)]
    /\ UNCHANGED <<now, keyPair, dbUp, last, returned, storeVars>>

SetStatus(licenseId, status) ==
    /\ dbUp
    /\ licenses[licenseId].status # status
    /\ licenses' = updateLicenseStatus(licenseId, status)
    /\ UNCHANGED <<now, keyPair, dbUp, genVars, activations, calls, ncalls,
                   genCalls, lastDone>>

\* ------------------------------------------------------------------------
\* Activation tokens: create, verify, verify a modified token
\* ------------------------------------------------------------------------
CreateToken(licenseKey, hardwareId, salt) ==
    /\ last' = [licenseKey |-> licenseKey, hardwareId |-> hardwareId,
                issuedAt |-> now, salt |-> salt, kp |-> keyPair,
                token |-> createActivationToken(keyPair, licenseKey,
                                                hardwareId, now, salt)]
    /\ checked' = NoCheck
    /\ UNCHANGED <<now, keyPair, dbUp, returned, storeVars>>

\* altered: the data or the signature read from input is not the one of the
\* token created last
CheckToken(kind, input, original) ==
    /\ \E parts \in {TokenParts(input)} :
           checked' = [kind |-> kind, kp |-> keyPair,
                       altered |-> parts # original,
                       result |-> VerifyParts(keyPair, parts)]
    /\ UNCHANGED <<now, keyPair, dbUp, last, returned, storeVars>>

VerifyToken ==
    /\ last # NoIssue
    /\ CheckToken("token", last.token, TokenParts(last.token))

\* the token with one byte of its decoded text changed; verification changes
\* nothing, so the modified copies are verified before the token itself
VerifyTamperedToken ==
    /\ last # NoIssue
    /\ checked = NoCheck
    /\ \E bytes \in {Base64Decode(last.token)},
          original \in {TokenParts(last.token)} :
           \E i \in 1..Len(bytes), delta \in TamperDeltas :
               CheckToken("tokenTampered",
                          Base64Encode([bytes EXCEPT ![i] = (@ + delta) % 256]),
                          original)

\* the server process is started again while no request is being served:
\* getLicenseGenerator() constructs a new LicenseGenerator, whose constructor
\* generates a key pair, and getDb() connects or not as the environment of
\* the new process has it; the tables are kept by the database server
Restart(available) ==
    /\ \A q \in Procs : Free(q)
    /\ keyPair < MaxKeyPairs
    /\ keyPair' = keyPair + 1
    /\ dbUp' = available
    /\ UNCHANGED <<now, genVars, storeVars>>

\* ------------------------------------------------------------------------
\* Specifications
\* ------------------------------------------------------------------------
Init ==
    /\ now = Epoch
    /\ keyPair = 1
    /\ dbUp = TRUE
    /\ last = NoIssue
    /\ returned = <<>>
    /\ checked = NoCheck
    /\ licenses = <<>>
    /\ activations = <<>>
    /\ calls = [p \in Procs |-> Idle]
    /\ ncalls = 0
    /\ genCalls = 0
    /\ lastDone = NoCall

\* the nonce and the salt of the signature reach the store through the key
\* string only; the requests of the store draw one of each
StoreNonces == {[j \in 1..NonceLen |-> 10]}
StoreSalts == {1}

GenerateStep ==
    \E email \in PurchaserEmails, maxActivations \in MaxActInputs,
       expiresInDays \in DaysInputs, nonce \in StoreNonces,
       salt \in StoreSalts :
        Generate(email, maxActivations, expiresInDays, nonce, salt)

IssueStep ==
    \E email \in Emails, maxActivations \in MaxActInputs,
       expiresInDays \in DaysInputs, nonce \in Nonces, salt \in Salts :
        Issue(email, maxActivations, expiresInDays, nonce, salt)

CallStep(p) ==
    \/ ActivateGetLicense(p)
    \/ ActivateGetActivation(p)
    \/ ActivateUpdateLastSeen(p)
    \/ ActivateCreateActivation(p)
    \/ ActivateIncrementCount(p)
    \/ DeactivateGetLicense(p)
    \/ DeactivateGetActivation(p)
    \/ DeactivateDeactivateActivation(p)
    \/ DeactivateDecrementCount(p)

StartStep ==
    \E p \in Procs, op \in {"activate", "deactivate"},
       licenseKey \in KeyInputs, hardwareId \in HardwareIds :
        StartCall(p, op, licenseKey, hardwareId)

\* requests one after the other: a request starts when none is being served
\* (with nothing in flight every request is served by the first process)
StartSeq(limit) ==
    /\ \A q \in Procs : Free(q)
    /\ ncalls < limit
    /\ \E op \in {"activate", "deactivate"},
          licenseKey \in KeyInputs, hardwareId \in HardwareIds :
           Accept(1, op, licenseKey, hardwareId)

StartStepSeq == StartSeq(MaxSeqCalls)

\* the licensing procedures under concurrent requests
Next ==
    \/ GenerateStep
    \/ StartStep
    \/ \E p \in Procs : CallStep(p)

Spec == Init /\ [][Next]_vars

\* licensing.generate served when no other request is
GenerateStepSeq ==
    /\ \A q \in Procs : Free(q)
    /\ GenerateStep

\* the licensing procedures called one at a time
NextSeq ==
    \/ GenerateStepSeq
    \/ StartStepSeq
    \/ \E p \in Procs : CallStep(p)

SpecSeq == Init /\ [][NextSeq]_vars

\* the same while time passes
NextClock ==
    \/ NextSeq
    \/ TickDay

SpecClock == Init /\ [][NextClock]_vars

\* licensing.generate with every maxActivations its input schema accepts
GenerateAnyStep ==
    /\ \A q \in Procs : Free(q)
    /\ \E email \in PurchaserEmails, maxActivations \in SchemaMaxActInputs,
          expiresInDays \in DaysInputs, nonce \in StoreNonces,
          salt \in StoreSalts :
           Generate(email, maxActivations, expiresInDays, nonce, salt)

StartStepAdmin == StartSeq(MaxAdminCalls)

ValidateStep ==
    /\ \A q \in Procs : Free(q)
    /\ \E licenseKey \in KeyInputs \cup {UnformattedKey} :
           ValidateRequest(licenseKey)

\* (the administrator acts between requests)
SetStatusStep ==
    /\ \A q \in Procs : Free(q)
    /\ \E licenseId \in DOMAIN licenses, status \in Statuses :
           SetStatus(licenseId, status)

\* requests one at a time, with validate requests and status changes
NextAdmin ==
    \/ GenerateStepSeq
    \/ StartStepAdmin
    \/ \E p \in Procs : CallStep(p)
    \/ ValidateStep
    \/ SetStatusStep

SpecAdmin == Init /\ [][NextAdmin]_vars

StartStepFail == StartSeq(MaxCalls)

\* a start of the process with or without a reachable database
RedeployStep == \E available \in BOOLEAN : Restart(available)

\* requests one at a time over a store whose queries can fail
NextFail ==
    \/ GenerateAnyStep
    \/ StartStepFail
    \/ \E p \in Procs : CallStep(p)
    \/ \E p \in Procs : StoreFailure(p)
    \/ RedeployStep

SpecFail == Init /\ [][NextFail]_vars

\* the token methods of the LicenseGenerator called directly, over restarts
\* of the process; the hardwareId strings are HW1, HW2, ...
NextToken ==
    \/ \E licenseKey \in IssuableKeys \cup {UnknownKey},
          hardwareId \in HardwareIds, salt \in StoreSalts :
           CreateToken(licenseKey, <<72, 87>> \o Dec(hardwareId), salt)
    \/ VerifyToken
    \/ VerifyTamperedToken
    \/ TickDay
    \/ Restart(TRUE)

SpecToken == Init /\ [][NextToken]_vars

\* the LicenseGenerator methods called directly
NextGen ==
    \/ IssueStep
    \/ ValidateKey
    \/ ValidateEncoded
    \/ ValidateTampered
    \/ ValidateForged
    \/ Tick

SpecGen == Init /\ [][NextGen]_vars

\* ------------------------------------------------------------------------
\* Properties
\* ------------------------------------------------------------------------
InFlight(p) == calls[p].pc \notin {"idle", "done"}

\* C1: under any interleaving of activate and deactivate requests, every
\* license has 0 <= currentActivations <= maxActivations in every state.
C1_CounterWithinCapacity ==
    \A i \in DOMAIN licenses :
        /\ licenses[i].currentActivations >= 0
        /\ licenses[i].currentActivations <= licenses[i].maxActivations

\* all requests of the behaviour were activate requests for the stored
\* license from pairwise distinct hardware ids, more of them than the license
\* allows, and all have completed
BurstCompleted ==
    /\ ncalls = NumProcs
    /\ \A p \in Procs :
          /\ calls[p].pc = "done"
          /\ calls[p].op = "activate"
          /\ KeyExists(calls[p].licenseKey)
    /\ \A p, q \in Procs : p # q => calls[p].hardwareId # calls[q].hardwareId
    /\ getLicenseByKey(calls[1].licenseKey).maxActivations < NumProcs

C3_CounterEqualsActiveRows ==
    \A i \in DOMAIN licenses :
        licenses[i].currentActivations = ActiveCount(i)

\* C4: there is at most one active activation row per (license, hardware id)
\* in every reachable state.
C4_OneActiveRowPerPair ==
    \A i \in DOMAIN licenses, h \in HardwareIds :
        Cardinality(getActivationByHardwareId(i, h)) <= 1

\* C5: when an activate request follows a successful activate of the same
\* license key and hardware id, it succeeds with alreadyActivated and leaves
\* currentActivations and the number of active rows as the first left them.
C5_RepeatedActivationIdempotent ==
    [][\A p \in Procs :
        (/\ InFlight(p)
         /\ Repeats(calls[p])
         /\ calls'[p].pc = "done")
        => LET id == getLicenseByKey(calls[p].licenseKey).id
           IN  /\ calls'[p].success
               /\ calls'[p].result = "alreadyActivated"
               /\ licenses'[id].currentActivations = calls[p].cur0
               /\ ActiveCountIn(activations', id) = calls[p].active0]_vars

\* a second activate of the same pair has completed as alreadyActivated
C5_Witness ==
    /\ lastDone.op = "activate"
    /\ lastDone.repeat
    /\ lastDone.success
    /\ lastDone.result = "alreadyActivated"

\* C6: validateLicenseKey of the string generateLicenseKey returned is valid
\* and its payload carries the issued email, maxActivations and expiresAt.
C6_RoundTrip ==
    checked.kind = "key" =>
        /\ checked.result.valid
        /\ checked.result.payload.email = last.email
        /\ checked.result.payload.maxActivations = last.maxActivations
        /\ checked.result.payload.expiresAt =
               Payload(last.email, last.maxActivations, last.expiresInDays,
                       last.issuedAt, last.nonce).expiresAt

\* C7: any two generateLicenseKey calls return different key strings.
C7_KeysUnique ==
    \A i, j \in DOMAIN returned : i # j => returned[i] # returned[j]

\* C8: a license issued with expiresInDays = 0 is reported 'License expired'
\* by every validation made later than the instant of issuance.
C8_ZeroDayExpired ==
    (/\ checked.kind = "key"
     /\ last.expiresInDays = 0
     /\ checked.at > last.issuedAt)
    => checked.result.error = ErrExpired

\* C9: a license issued without expiresInDays is never reported 'License
\* expired', neither for the key string handed out nor for the signed
\* encoding the key string is cut from, at any later time.
C9_NoExpiryNeverExpired ==
    (/\ checked.kind \in {"key", "encoded"}
     /\ last.expiresInDays = Absent)
    => checked.result.error # ErrExpired

\* the signed encoding of a license without expiry passed the expiry check
\* more than a day after issuance
C9_Witness ==
    /\ checked.kind = "encoded"
    /\ last.expiresInDays = Absent
    /\ checked.at > last.issuedAt + MsPerDay
    /\ checked.result.valid

\* C10: an issued key with one decoded byte changed and encoded again is
\* rejected with 'Invalid signature'; 'Invalid license key format' is given
\* only when the change is what breaks structural decoding.
C10_TamperDetected ==
    checked.kind = "tampered" =>
        /\ ~checked.result.valid
        /\ \/ checked.result.error = ErrSignature
           \/ /\ checked.result.error = ErrFormat
              /\ Decodes(last.key)
              /\ ~checked.decodes

\* C11: no step of an activate request whose licenseKey validateLicenseKey
\* rejects creates an activation row, changes currentActivations or ends the
\* request with success.
C11_ActivateValidatesKey ==
    [][\A p \in Procs :
        (/\ InFlight(p)
         /\ calls[p].op = "activate"
         /\ ~validateLicenseKey(keyPair, calls[p].licenseKey, now).valid
         /\ calls' # calls)
        => /\ activations' = activations
           /\ licenses' = licenses
           /\ (calls'[p].pc = "done" => ~calls'[p].success)]_vars

\* the license the request of p found stored under its key when it arrived
License0(p) ==
    LET rows == calls[p].licenses0
    IN  rows[CHOOSE i \in DOMAIN rows :
                 rows[i].licenseKey = calls[p].licenseKey]

Stored0(p) ==
    \E i \in DOMAIN calls[p].licenses0 :
        calls[p].licenses0[i].licenseKey = calls[p].licenseKey

\* C12: a validate request for a license stored as 'expired' or 'revoked' is
\* answered valid = false, and an activate request for such a license ends
\* with 'License is <status>' and leaves both tables as it found them,
\* whatever the counter and the activation rows are.
C12_StatusBlocks ==
    /\ [](/\ checked.kind = "validate"
           /\ checked.status \in {"expired", "revoked"}
           => ~checked.result.valid)
    /\ [][\A p \in Procs :
            (/\ InFlight(p)
             /\ calls[p].op = "activate"
             /\ Stored0(p)
             /\ License0(p).status \in {"expired", "revoked"}
             /\ calls'[p].pc = "done")
            => /\ ~calls'[p].success
               /\ calls'[p].result = ErrStatus(License0(p).status)
               /\ licenses' = calls[p].licenses0
               /\ activations' = calls[p].activations0]_vars

\* an activate of a hardware id that holds an active activation was turned
\* down because the license is revoked, and a validate request saw the
\* revoked license
C12_Witness ==
    /\ lastDone.op = "activate"
    /\ lastDone.result = ErrStatus("revoked")
    /\ KeyExists(lastDone.licenseKey)
    /\ getActivationByHardwareId(getLicenseByKey(lastDone.licenseKey).id,
                                 lastDone.hardwareId) # {}
    /\ checked.kind = "validate"
    /\ checked.status = "revoked"
    /\ ~checked.result.valid

\* C13: no activation row is created for a license whose expiresAt lies in
\* the past, even while its stored status is 'active' and it has free slots.
C13_ExpiredNotActivated ==
    [][Len(activations') > Len(activations)
        => LET row == activations'[Len(activations')]
               license == licenses[row.licenseId]
           IN  \/ license.expiresAt = Null
               \/ license.expiresAt >= now]_vars

\* C14: a deactivate request that succeeds lowers currentActivations and the
\* number of active rows by exactly 1, and an activate request that was
\* turned down for capacity succeeds with a new activation when it is
\* repeated right after another hardware id of the license was deactivated.
C14_DeactivateFreesSlot ==
    [][\A p \in Procs :
        (InFlight(p) /\ calls'[p].pc = "done")
        => LET id == getLicenseByKey(calls[p].licenseKey).id
           IN  /\ (calls[p].op = "deactivate" /\ calls'[p].success)
                  => /\ licenses'[id].currentActivations = calls[p].cur0 - 1
                     /\ ActiveCountIn(activations', id) = calls[p].active0 - 1
               /\ Reuses(calls[p])
                  => /\ calls'[p].success
                     /\ calls'[p].result = "activated"
                     /\ licenses'[id].currentActivations = calls[p].cur0 + 1
                     /\ ActiveCountIn(activations', id)
                            = calls[p].active0 + 1]_vars

\* on a license with one slot: the activate that was turned down has
\* succeeded after the deactivate of the other hardware id
C14_Witness ==
    /\ lastDone.op = "activate"
    /\ lastDone.reuse
    /\ lastDone.success
    /\ lastDone.result = "activated"
    /\ getLicenseByKey(lastDone.licenseKey).maxActivations = 1
    /\ getLicenseByKey(lastDone.licenseKey).currentActivations = 1

\* C15: a deactivate request for a stored license and a hardware id without
\* an active activation row ends with 'Activation not found' and leaves
\* both tables as it found them.
C15_DeactivateWithoutActivation ==
    [][\A p \in Procs :
        (/\ InFlight(p)
         /\ calls[p].op = "deactivate"
         /\ Stored0(p)
         /\ \A i \in DOMAIN calls[p].activations0 :
               ~(/\ calls[p].activations0[i].licenseId = License0(p).id
                 /\ calls[p].activations0[i].hardwareId = calls[p].hardwareId
                 /\ calls[p].activations0[i].status = "active")
         /\ calls'[p].pc = "done")
        => /\ ~calls'[p].success
           /\ calls'[p].result = ErrNoActivation
           /\ licenses' = calls[p].licenses0
           /\ activations' = calls[p].activations0]_vars

\* a deactivate of a pair that had been deactivated already was turned down
C15_Witness ==
    /\ lastDone.op = "deactivate"
    /\ lastDone.result = ErrNoActivation
    /\ \E i \in DOMAIN activations :
          /\ activations[i].licenseId
                 = getLicenseByKey(lastDone.licenseKey).id
          /\ activations[i].hardwareId = lastDone.hardwareId
          /\ activations[i].status = "deactivated"

\* C16: while no activate request is in flight, currentActivations is not
\* below 0, and of the deactivate requests for one (license, hardware id)
\* pair each success stands for an activation row of its own that it
\* deactivated: two concurrent requests for one active row decrement once.
C16_DeactivateDecrementsOnce ==
    (\A p \in Procs : ~(InFlight(p) /\ calls[p].op = "activate")) =>
    \A i \in DOMAIN licenses :
        /\ licenses[i].currentActivations >= 0
        /\ \A h \in HardwareIds :
              Cardinality({p \in Procs :
                              /\ calls[p].pc = "done"
                              /\ calls[p].op = "deactivate"
                              /\ calls[p].success
                              /\ calls[p].licenseKey = licenses[i].licenseKey
                              /\ calls[p].hardwareId = h})
                <= Cardinality({a \in DOMAIN activations :
                                   /\ activations[a].licenseId = i
                                   /\ activations[a].hardwareId = h
                                   /\ activations[a].status = "deactivated"})

\* C17: every stored license has maxActivations >= 1.
C17_MaxActivationsPositive ==
    \A i \in DOMAIN licenses : licenses[i].maxActivations >= 1

\* C18: an activate request with a key no license is stored under ends with
\* 'License not found' and leaves both tables as it found them.
C18_UnknownKeyNotActivated ==
    [][\A p \in Procs :
        (/\ InFlight(p)
         /\ calls[p].op = "activate"
         /\ ~Stored0(p)
         /\ calls'[p].pc = "done")
        => /\ ~calls'[p].success
           /\ calls'[p].result = ErrNotFound
           /\ licenses' = calls[p].licenses0
           /\ activations' = calls[p].activations0]_vars

\* an activate with a key string the generator hands out was turned down
\* while no license was stored
C18_Witness ==
    /\ lastDone.op = "activate"
    /\ lastDone.licenseKey \in IssuableKeys
    /\ lastDone.result = ErrNotFound
    /\ licenses = <<>>
    /\ activations = <<>>

\* C19: an activate or deactivate request that ends with a failure that is
\* not a failure of the store leaves both tables as it found them.
C19_FailureLeavesStore ==
    [][\A p \in Procs :
        (/\ InFlight(p)
         /\ calls'[p].pc = "done"
         /\ ~calls'[p].success
         /\ calls'[p].result # ErrStore)
        => /\ licenses' = calls[p].licenses0
           /\ activations' = calls[p].activations0]_vars

\* an activate was turned down for capacity on a license that has an
\* activation
C19_Witness ==
    /\ lastDone.op = "activate"
    /\ lastDone.result = ErrCapacity
    /\ activations # <<>>
    /\ ActiveCount(getLicenseByKey(lastDone.licenseKey).id) >= 1

\* C20: an activate or deactivate request that ends because a store call
\* failed or the request was aborted leaves both tables as it found them.
C20_StoreFailureAtomic ==
    [][\A p \in Procs :
        (/\ InFlight(p)
         /\ calls'[p].pc = "done"
         /\ calls'[p].result = ErrStore)
        => /\ licenses' = calls[p].licenses0
           /\ activations' = calls[p].activations0]_vars

\* C21: when the store cannot be reached, activate and deactivate end with a
\* store-unavailable error, never with 'License not found' or 'Activation
\* not found': a request for a stored license that completes while getDb()
\* gives no connection fails with 'Database not available' or the store's
\* own error.
C21_StoreUnavailableSurfaced ==
    [][\A p \in Procs :
        (/\ InFlight(p)
         /\ calls'[p].pc = "done"
         /\ ~dbUp
         /\ \E i \in DOMAIN licenses :
                licenses[i].licenseKey = calls[p].licenseKey)
        => /\ ~calls'[p].success
           /\ calls'[p].result \in {ErrDatabase, ErrStore}]_vars

\* C22: an activation token issued at any time verifies at any later time,
\* also after a restart of the process: every verifyActivationToken call on
\* the token created last reports it valid.
C22_TokenVerifiesLater ==
    checked.kind = "token" => checked.result.valid

\* C24: verifyActivationToken on a token of createActivationToken(k, h),
\* asked of the generator that created it, reports it valid with data
\* carrying exactly k and h; a token whose data or signature was altered is
\* never reported valid.
C24_TokenRoundTrip ==
    /\ (checked.kind = "token" /\ checked.kp = last.kp)
       => /\ checked.result.valid
          /\ checked.result.data.licenseKey = last.licenseKey
          /\ checked.result.data.hardwareId = last.hardwareId
    /\ (checked.kind = "tokenTampered" /\ checked.altered)
       => ~checked.result.valid

C24_Witness ==
    /\ checked.kind = "token"
    /\ checked.kp = last.kp
    /\ checked.result.valid
    /\ last.licenseKey \in IssuableKeys
    /\ checked.result.data.licenseKey = last.licenseKey

\* C23: licensing.validate reports valid = true only when validateLicenseKey
\* passes and a license record with status 'active' is stored under the key;
\* a key that validateLicenseKey accepts and whose record is missing or not
\* active is reported invalid.
C23_ValidNeedsActiveRecord ==
    /\ (checked.kind = "validate" /\ checked.result.valid)
       => checked.offline /\ checked.status = "active"
    /\ (checked.kind = "validate" /\ checked.offline
           /\ checked.status # "active")
       => ~checked.result.valid

C23_Witness ==
    /\ checked.kind = "validate"
    /\ checked.offline
    /\ checked.status = "none"
    /\ ~checked.result.valid
    /\ checked.result.error = ErrNotInDatabase

\* C25: records are never deleted: over generate, activate and deactivate
\* the license and activation tables only grow, every row keeps its id and
\* what it identifies, and the status of an activation row changes only from
\* 'active' to 'deactivated' (an activation after a deactivation is a new
\* row).
C25_RecordsOnlyGrow ==
    [][/\ Len(licenses') >= Len(licenses)
       /\ Len(activations') >= Len(activations)
       /\ \A i \in DOMAIN licenses :
              /\ licenses'[i].id = licenses[i].id
              /\ licenses'[i].licenseKey = licenses[i].licenseKey
       /\ \A i \in DOMAIN activations :
              /\ activations'[i].id = activations[i].id
              /\ activations'[i].licenseId = activations[i].licenseId
              /\ activations'[i].hardwareId = activations[i].hardwareId
              /\ activations'[i].status # activations[i].status
                 => /\ activations[i].status = "active"
                    /\ activations'[i].status = "deactivated"
       /\ \A i \in DOMAIN activations' \ DOMAIN activations :
              activations'[i].status = "active"]_vars

\* a hardware id activated, deactivated and activated again: two rows
C25_Witness ==
    \E i, j \in DOMAIN activations :
        /\ i < j
        /\ activations[i].licenseId = activations[j].licenseId
        /\ activations[i].hardwareId = activations[j].hardwareId
        /\ activations[i].status = "deactivated"
        /\ activations[j].status = "active"

\* C26: a (license, hardwareId) pair that was deactivated can be activated
\* again: an activate request for a pair with a deactivated row and no
\* active row succeeds as a new activation (alreadyActivated false, a token,
\* a new active row, counter + 1) when currentActivations < maxActivations,
\* and ends with 'Maximum activations reached' otherwise.
C26_ReactivationAfterDeactivate ==
    [][\A p \in Procs :
        (/\ InFlight(p)
         /\ calls'[p].pc = "done"
         /\ calls[p].op = "activate"
         /\ Stored0(p)
         /\ License0(p).status = "active"
         /\ LET rows == calls[p].activations0
                mine == {i \in DOMAIN rows :
                            /\ rows[i].licenseId = License0(p).id
                            /\ rows[i].hardwareId = calls[p].hardwareId}
            IN  /\ \E i \in mine : rows[i].status = "deactivated"
                /\ \A i \in mine : rows[i].status = "deactivated")
        => IF License0(p).currentActivations < License0(p).maxActivations
           THEN /\ calls'[p].success
                /\ calls'[p].result = "activated"
                /\ calls'[p].token # NoToken
                /\ licenses'[License0(p).id].currentActivations
                       = License0(p).currentActivations + 1
                /\ Len(activations') = Len(calls[p].activations0) + 1
                /\ LET new == activations'[Len(activations')]
                   IN  /\ new.licenseId = License0(p).id
                       /\ new.hardwareId = calls[p].hardwareId
                       /\ new.status = "active"
           ELSE /\ ~calls'[p].success
                /\ calls'[p].result = ErrCapacity
                /\ activations' = calls[p].activations0]_vars

\* the activate that followed the deactivation of its pair has succeeded
C26_Witness ==
    /\ lastDone.op = "activate"
    /\ lastDone.success
    /\ lastDone.result = "activated"
    /\ lastDone.token # NoToken
    /\ \E i \in DOMAIN activations :
           /\ activations[i].licenseId = getLicenseByKey(lastDone.licenseKey).id
           /\ activations[i].hardwareId = lastDone.hardwareId
           /\ activations[i].status = "deactivated"

\* C27: validateLicenseKey checks decoding, then the signature, then the
\* expiry, and reports one error: a key that does not decode gives 'Invalid
\* license key format', a key that decodes and whose signature does not
\* verify gives 'Invalid signature' whether or not its payload has expired,
\* and 'License expired' is reported only for a key whose signature verifies.
C27_ValidationOrder ==
    checked.kind \in {"key", "encoded", "tampered", "forged"}
    => /\ checked.result.valid <=> checked.result.error = NoError
       /\ checked.result.error
              \in {NoError, ErrFormat, ErrSignature, ErrExpired}
       /\ ~checked.decodes => checked.result.error = ErrFormat
       /\ (checked.decodes /\ ~checked.verifies)
          => checked.result.error = ErrSignature
       /\ checked.result.error = ErrExpired => checked.verifies

\* a forged key whose payload expired before the check: 'Invalid signature'
C27_Witness ==
    /\ checked.kind = "forged"
    /\ checked.decodes
    /\ ~checked.verifies
    /\ last.expiresInDays = 1
    /\ checked.at > last.issuedAt + MsPerDay
    /\ checked.result.error = ErrSignature

\* C28: an activate request for a pair that has an active activation changes
\* the lastSeenAt of that row and nothing else (no new row, the license and
\* all other rows as they were) and returns success with alreadyActivated =
\* true and no token; an activation token is returned exactly by the
\* requests that add an activation row.
C28_AlreadyActivatedFrame ==
    [][\A p \in Procs :
        (InFlight(p) /\ calls'[p].pc = "done" /\ calls[p].op = "activate")
        => LET rows == calls[p].activations0
               mine == IF Stored0(p) /\ License0(p).status = "active"
                       THEN {i \in DOMAIN rows :
                                /\ rows[i].licenseId = License0(p).id
                                /\ rows[i].hardwareId = calls[p].hardwareId
                                /\ rows[i].status = "active"}
                       ELSE {}
           IN  /\ calls'[p].token # NoToken <=> Len(activations') > Len(rows)
               /\ mine # {}
                  => /\ calls'[p].success
                     /\ calls'[p].result = "alreadyActivated"
                     /\ calls'[p].token = NoToken
                     /\ licenses' = calls[p].licenses0
                     /\ DOMAIN activations' = DOMAIN rows
                     /\ \A i \in DOMAIN rows :
                            activations'[i] =
                                IF i \in mine
                                THEN [rows[i] EXCEPT !.lastSeenAt = now]
                                ELSE rows[i]]_vars

\* a day after two hardware ids were activated one of them asked again: its
\* row carries the new instant, the other row the old one
C28_Witness ==
    /\ lastDone.op = "activate"
    /\ lastDone.success
    /\ lastDone.result = "alreadyActivated"
    /\ lastDone.token = NoToken
    /\ now > Epoch
    /\ \E i, j \in DOMAIN activations :
           /\ activations[i].hardwareId = lastDone.hardwareId
           /\ activations[i].status = "active"
           /\ activations[i].lastSeenAt = now
           /\ activations[j].hardwareId # lastDone.hardwareId
           /\ activations[j].lastSeenAt = Epoch

C30_EveryIssuancePersists ==
    lastDone.op = "generate"
    => /\ lastDone.success
       /\ licenses # <<>>
       /\ licenses[Len(licenses)].status = "active"
       /\ licenses[Len(licenses)].currentActivations = 0

====
